---- MODULE Spec2Model ----
(***************************************************************************)
(* Multi-fund greedy allocation of backlog systems under capacity budgets  *)
(* and exclusions: optimization/optimizer.py allocate_systems_to_funds,    *)
(* with constraints/constraint_utils.py.                                   *)
(*                                                                         *)
(* Money (FMV, capacities, caps) is counted in whole units.  An upper      *)
(* bound is the rational <<num, den>>, so that "ub <= 1" and "ub * cap"    *)
(* are computed as the code computes them; the inputs are chosen so that   *)
(* every product is a whole number.                                        *)
(***************************************************************************)
EXTENDS Integers, Sequences, FiniteSets, TLC

VARIABLES
    df_systems,            \* all systems: id -> row (FMV, state, partner, portfolio)
    funds,                 \* fund name -> list of Constraint
    fund_targets,          \* fund name -> target capacity
    pc,                    \* position in allocate_systems_to_funds
    fund_data,             \* fund name -> working data of Step 1
    df_backlog,            \* backlog rows (ids, in row order)
    candidate_allocations, \* tentative placements, sorted in Step 3
    pos,                   \* index of the next candidate of the Step 4 loop
    unallocated_systems,   \* ids still unallocated in Step 4
    last,                  \* what the last loop iteration did with its candidate
    allocation_results,    \* fund name -> result of Step 5
    fund_model,            \* fund name -> budgets returned by a call of the initializer
    constraint_caps,       \* fund name -> caps returned by a call of scratch_book's initializer
    selected_funds,        \* run_optimization: the funds to optimize, in order
    allocated_fund,        \* run_optimization: the backlog table's allocated_fund column
    selected_pos,          \* run_optimization: index of the next selected fund
    runner_results         \* run_optimization: fund name -> allocated FMV and systems

vars == <<df_systems, funds, fund_targets, pc, fund_data, df_backlog,
          candidate_allocations, pos, unallocated_systems, last,
          allocation_results, fund_model, constraint_caps,
          selected_funds, allocated_fund, selected_pos, runner_results>>

----------------------------------------------------------------------------
(* Bounds of the model *)

NumSystems == 2
MaxFMV == 2

----------------------------------------------------------------------------
(* Data model: constraints/models.py *)

OTHERS == "__OTHERS__"
None == <<>>
UPPER_BOUND == "Upper Bound"
EXCLUSION == "Exclusion"
Developer == "Sunnova TEP Developer LLC"

FundOrder == <<"F1", "F2">>
FundNames == {FundOrder[i] : i \in 1..Len(FundOrder)}

AttributeOrder == <<"state", "partner">>

Condition(type, is_dict, values, bounds) ==
    [type |-> type, is_dict |-> is_dict, values |-> values, bounds |-> bounds]

Constraint(name, constraint_type, upper_bound, apply_per_value, conditions, active) ==
    [name |-> name, constraint_type |-> constraint_type, upper_bound |-> upper_bound,
     apply_per_value |-> apply_per_value, conditions |-> conditions, active |-> active]

Range(s) == {s[i] : i \in 1..Len(s)}

RECURSIVE Flatten(_)
Flatten(ss) == IF ss = <<>> THEN <<>> ELSE Head(ss) \o Flatten(Tail(ss))

RECURSIVE SumFMV(_, _)
SumFMV(rows, ids) ==
    IF ids = {} THEN 0
    ELSE LET i == CHOOSE x \in ids : TRUE
         IN rows[i].FMV + SumFMV(rows, ids \ {i})

----------------------------------------------------------------------------
(* Capacity Initializer: constraints/constraint_utils.py *)

\* cap = upper_bound * fund_capacity if upper_bound <= 1 else upper_bound
ResolveBound(ub, fund_capacity) ==
    IF ub[1] <= ub[2] THEN (ub[1] * fund_capacity) \div ub[2] ELSE ub[1] \div ub[2]

ConstraintModel(name, attribute, upper_bound, values, is_group) ==
    [name |-> name, attribute |-> attribute, upper_bound |-> upper_bound,
     values |-> values, is_group |-> is_group]

\* the constraints the initializer passes over
Skipped(constraint) ==
    \/ ~constraint.active
    \/ constraint.constraint_type = EXCLUSION
    \/ constraint.upper_bound = None

\* ConditionModels that gives every value of a mapping the constraint's overall bound
ConditionModels_OverallBound(constraint, condition, fund_capacity) ==
    LET cap == ResolveBound(constraint.upper_bound, fund_capacity)
        n == Len(condition.values)
    IN IF constraint.apply_per_value
       THEN [i \in 1..n |->
                ConstraintModel(constraint.name \o "_" \o condition.values[i],
                                condition.type, cap, <<condition.values[i]>>, FALSE)]
       ELSE <<ConstraintModel(constraint.name, condition.type, cap, condition.values, TRUE)>>

\* the budgets of one condition of one constraint
ConditionModels(constraint, condition, fund_capacity) ==
    LET cap == ResolveBound(constraint.upper_bound, fund_capacity)
        n == Len(condition.values)
        bounded == SelectSeq([i \in 1..n |-> i], LAMBDA i : condition.bounds[i] # None)
    IN IF constraint.apply_per_value
       THEN IF condition.is_dict
            THEN [k \in 1..Len(bounded) |->
                    ConstraintModel(constraint.name \o "_" \o condition.values[bounded[k]],
                                    condition.type,
                                    ResolveBound(condition.bounds[bounded[k]], fund_capacity),
                                    <<condition.values[bounded[k]]>>, FALSE)]
            ELSE [i \in 1..n |->
                    ConstraintModel(constraint.name \o "_" \o condition.values[i],
                                    condition.type, cap, <<condition.values[i]>>, FALSE)]
       ELSE <<ConstraintModel(constraint.name, condition.type, cap, condition.values, TRUE)>>

\* RaisesInvalidCapacity that looks at the capacity before any constraint
RaisesInvalidCapacity_BeforeLoop(constraints, fund_capacity) ==
    fund_capacity <= 0

\* raise ValueError(f"Invalid fund capacity: {fund_capacity}")
RaisesInvalidCapacity(constraints, fund_capacity) ==
    /\ fund_capacity <= 0
    /\ \E i \in 1..Len(constraints) : ~Skipped(constraints[i])

\* the list FundModel.constraints
initialize_constraint_caps(constraints, fund_capacity) ==
    Flatten([i \in 1..Len(constraints) |->
        IF Skipped(constraints[i]) THEN <<>>
        ELSE Flatten([j \in 1..Len(constraints[i].conditions) |->
                ConditionModels(constraints[i], constraints[i].conditions[j], fund_capacity)])])

\* attribute -> {value -> cap}: the budgets of the list, keyed by the attribute
\* and the value they match; a later budget for the same value replaces an
\* earlier one
AttributeCaps(models) ==
    LET n == Len(models)
        attrs == {models[i].attribute : i \in 1..n}
        of(a, v) == {i \in 1..n : models[i].attribute = a /\ v \in Range(models[i].values)}
        keys(a) == {v \in UNION {Range(models[i].values) : i \in 1..n} : of(a, v) # {}}
        latest(a, v) == CHOOSE i \in of(a, v) : \A j \in of(a, v) : j <= i
    IN [a \in attrs |-> [v \in keys(a) |-> models[latest(a, v)].upper_bound]]

\* attribute -> the values the fund's constraints name explicitly
ConstrainedValues(constraints) ==
    LET named(c, a) == UNION {Range(c.conditions[j].values) \ {OTHERS} :
                              j \in {k \in 1..Len(c.conditions) : c.conditions[k].type = a}}
    IN [a \in Range(AttributeOrder) |->
            UNION {named(constraints[i], a) : i \in 1..Len(constraints)}]

----------------------------------------------------------------------------
(* The other initializer of the repository: scratch_book.py *)

\* ub * fund_capacity if ub < 1 else ub
ScratchValueBound(ub, fund_capacity) ==
    IF ub[1] < ub[2] THEN (ub[1] * fund_capacity) \div ub[2] ELSE ub[1] \div ub[2]

\* upper_bound * fund_capacity if upper_bound and upper_bound < 1 else upper_bound
ScratchOverallBound(upper_bound, fund_capacity) ==
    IF upper_bound = None THEN None
    ELSE IF upper_bound[1] # 0
         THEN IF upper_bound[1] < upper_bound[2]
              THEN (upper_bound[1] * fund_capacity) \div upper_bound[2]
              ELSE upper_bound[1] \div upper_bound[2]
         ELSE 0

ScratchEntry(cname, cap) == [cname |-> cname, cap |-> cap]

\* the entries one constraint writes into constraint_caps, in the order written
ScratchEntries(constraint, fund_capacity) ==
    IF ~constraint.active THEN <<>>
    ELSE IF constraint.apply_per_value
         THEN Flatten([j \in 1..Len(constraint.conditions) |->
                 LET condition == constraint.conditions[j]
                 IN [k \in 1..Len(condition.values) |->
                        ScratchEntry(constraint.name \o " - " \o condition.values[k],
                            IF condition.is_dict
                            THEN ScratchValueBound(condition.bounds[k], fund_capacity)
                            ELSE ScratchOverallBound(constraint.upper_bound, fund_capacity))]])
         ELSE <<ScratchEntry(constraint.name,
                             ScratchOverallBound(constraint.upper_bound, fund_capacity))>>

\* "ub < 1" with ub None is a TypeError
ScratchRaisesTypeError(constraints) ==
    \E i \in 1..Len(constraints) :
        /\ constraints[i].active
        /\ constraints[i].apply_per_value
        /\ \E j \in 1..Len(constraints[i].conditions) :
              /\ constraints[i].conditions[j].is_dict
              /\ None \in Range(constraints[i].conditions[j].bounds)

\* the dictionary constraint_caps: cname -> cap, a later entry replacing an earlier one
scratch_initialize_constraint_caps(constraints, fund_capacity) ==
    LET entries == Flatten([i \in 1..Len(constraints) |->
                        ScratchEntries(constraints[i], fund_capacity)])
        n == Len(entries)
        of(cname) == {i \in 1..n : entries[i].cname = cname}
        latest(cname) == CHOOSE i \in of(cname) : \A j \in of(cname) : j <= i
    IN [cname \in {entries[i].cname : i \in 1..n} |-> entries[latest(cname)].cap]

----------------------------------------------------------------------------
(* Eligibility Filter: constraints/constraint_utils.py *)

\* ExclusionConditions that takes the inactive Exclusion constraints as well
ExclusionConditions_IgnoringActive(constraints) ==
    Flatten([i \in 1..Len(constraints) |->
        IF constraints[i].constraint_type = EXCLUSION
        THEN constraints[i].conditions ELSE <<>>])

\* the conditions of the fund's active Exclusion constraints
ExclusionConditions(constraints) ==
    Flatten([i \in 1..Len(constraints) |->
        IF constraints[i].active /\ constraints[i].constraint_type = EXCLUSION
        THEN constraints[i].conditions ELSE <<>>])

\* apply_exclusions that filters nothing
apply_exclusions_NoFilter(rows, df, exclusion_constraints) == df

\* df = df[~df[attribute].isin(values)], one condition after the other
RECURSIVE apply_exclusions(_, _, _)
apply_exclusions(rows, df, exclusion_constraints) ==
    IF exclusion_constraints = <<>> THEN df
    ELSE LET condition == Head(exclusion_constraints)
             kept == SelectSeq(df, LAMBDA idx :
                        rows[idx][condition.type] \notin Range(condition.values))
         IN apply_exclusions(rows, kept, Tail(exclusion_constraints))

----------------------------------------------------------------------------
(* Step 1 of allocate_systems_to_funds: fund data *)

\* df_systems[df_systems['Asset Portfolio - Customer'] == fund_name]
AllocatedTo(rows, fund_name) ==
    SelectSeq([i \in 1..Len(rows) |-> i], LAMBDA i : rows[i].portfolio = fund_name)

\* remaining_capacity = target_capacity - current_allocation, floored at 0
RemainingCapacity(rows, fund_name, target_capacity) ==
    LET current_allocation == SumFMV(rows, Range(AllocatedTo(rows, fund_name)))
        remaining_capacity == target_capacity - current_allocation
    IN IF remaining_capacity <= 0 THEN 0 ELSE remaining_capacity

\* AdjustCaps without the floor at 0
AdjustCaps_NoFloor(rows, allocated, attribute_caps) ==
    [a \in DOMAIN attribute_caps |->
        [v \in DOMAIN attribute_caps[a] |->
            attribute_caps[a][v] - SumFMV(rows, {i \in Range(allocated) : rows[i][a] = v})]]

\* attribute_caps[attribute][value] -= current_usage, floored at 0
AdjustCaps(rows, allocated, attribute_caps) ==
    [a \in DOMAIN attribute_caps |->
        [v \in DOMAIN attribute_caps[a] |->
            LET current_usage == SumFMV(rows, {i \in Range(allocated) : rows[i][a] = v})
                remaining == attribute_caps[a][v] - current_usage
            IN IF remaining < 0 THEN 0 ELSE remaining]]

FundData(rows, fund_name, constraints, target_capacity) ==
    LET df_allocated == AllocatedTo(rows, fund_name)
    IN [remaining_capacity |-> RemainingCapacity(rows, fund_name, target_capacity),
        attribute_caps |-> AdjustCaps(rows, df_allocated,
                              AttributeCaps(initialize_constraint_caps(constraints, target_capacity))),
        constrained_values |-> ConstrainedValues(constraints),
        allocated_systems |-> df_allocated,
        infeasible_constraints |-> {}]

----------------------------------------------------------------------------
(* Constraint Matcher and admission test *)

\* for attribute in attribute_caps
AttributesOf(attribute_caps) ==
    SelectSeq(AttributeOrder, LAMBDA a : a \in DOMAIN attribute_caps)

\* CheckedKeys that holds every system against the OTHERS budget as well
CheckedKeys_AlwaysOthers(fund_info, attribute, system) ==
    LET caps == fund_info.attribute_caps[attribute]
        value == system[attribute]
    IN ({value} \cap DOMAIN caps) \cup
       {k \in DOMAIN caps : k = OTHERS /\ value \notin fund_info.constrained_values[attribute] \ DOMAIN caps}

\* the budget of one attribute the feasibility check reads for a system
CheckedKeys(fund_info, attribute, system) ==
    LET caps == fund_info.attribute_caps[attribute]
        value == system[attribute]
    IN IF value \in DOMAIN caps THEN {value}
       ELSE IF OTHERS \in DOMAIN caps
            THEN IF value \notin fund_info.constrained_values[attribute]
                 THEN {OTHERS} ELSE {}
            ELSE {}

\* DebitedKeys that forgets the OTHERS budget
DebitedKeys_ExplicitOnly(fund_info, attribute, system) ==
    LET caps == fund_info.attribute_caps[attribute]
        value == system[attribute]
    IN IF value \in DOMAIN caps THEN {value} ELSE {}

\* DebitedKeys that charges the OTHERS budget for every value without a budget
DebitedKeys_UnbudgetedToOthers(fund_info, attribute, system) ==
    LET caps == fund_info.attribute_caps[attribute]
        value == system[attribute]
    IN IF value \in DOMAIN caps THEN {value}
       ELSE IF OTHERS \in DOMAIN caps THEN {OTHERS} ELSE {}

\* the budget of one attribute the allocation debits for a system
DebitedKeys(fund_info, attribute, system) ==
    LET caps == fund_info.attribute_caps[attribute]
        value == system[attribute]
    IN IF value \in DOMAIN caps THEN {value}
       ELSE IF OTHERS \in DOMAIN caps
            THEN IF value \notin fund_info.constrained_values[attribute]
                 THEN {OTHERS} ELSE {}
            ELSE {}

\* Exceeded with cap <= system_fmv
Exceeded_Inclusive(fund_info, attribute, system) ==
    \E k \in CheckedKeys(fund_info, attribute, system) :
        fund_info.attribute_caps[attribute][k] <= system.FMV

\* cap < system_fmv for the budget checked on this attribute
Exceeded(fund_info, attribute, system) ==
    \E k \in CheckedKeys(fund_info, attribute, system) :
        fund_info.attribute_caps[attribute][k] < system.FMV

Feasible(fund_info, system) ==
    \A a \in DOMAIN fund_info.attribute_caps : ~Exceeded(fund_info, a, system)

\* the reason the candidate loop records: the first attribute whose budget fails
InfeasibleReason(fund_info, system) ==
    LET attrs == AttributesOf(fund_info.attribute_caps)
        first == CHOOSE i \in 1..Len(attrs) :
                    /\ Exceeded(fund_info, attrs[i], system)
                    /\ \A j \in 1..(i - 1) : ~Exceeded(fund_info, attrs[j], system)
        k == CHOOSE x \in CheckedKeys(fund_info, attrs[first], system) : TRUE
    IN "Constraint '" \o attrs[first] \o "=" \o k \o "' exceeded capacity."

\* Allocate without the debit of the fund's remaining capacity
Allocate_NoCapacityDebit(fund_info, system_idx, system) ==
    [fund_info EXCEPT
        !.allocated_systems = Append(@, system_idx),
        !.attribute_caps =
            [a \in DOMAIN @ |->
                [v \in DOMAIN @[a] |->
                    IF v \in DebitedKeys(fund_info, a, system)
                    THEN @[a][v] - system.FMV ELSE @[a][v]]]]

\* Allocate without the debit of the budgets
Allocate_CapacityOnly(fund_info, system_idx, system) ==
    [fund_info EXCEPT
        !.allocated_systems = Append(@, system_idx),
        !.remaining_capacity = @ - system.FMV]

\* fund_info after the system is allocated to the fund
Allocate(fund_info, system_idx, system) ==
    [fund_info EXCEPT
        !.allocated_systems = Append(@, system_idx),
        !.remaining_capacity = @ - system.FMV,
        !.attribute_caps =
            [a \in DOMAIN @ |->
                [v \in DOMAIN @[a] |->
                    IF v \in DebitedKeys(fund_info, a, system)
                    THEN @[a][v] - system.FMV ELSE @[a][v]]]]

----------------------------------------------------------------------------
(* Steps 2 and 3: candidate placements *)

\* the backlog as it was passed, nothing dropped
DropAllocated_KeepsAll(rows, df) == df

\* df_backlog.drop(index=allocated_systems_ids, errors='ignore')
DropAllocated(rows, df) ==
    SelectSeq(df, LAMBDA idx : rows[idx].portfolio \notin FundNames)

\* for fund_name in fund_data: df_backlog = apply_exclusions(df_backlog, fund)
RECURSIVE ApplyAllExclusions(_, _, _, _)
ApplyAllExclusions(rows, df, all_funds, order) ==
    IF order = <<>> THEN df
    ELSE ApplyAllExclusions(rows,
            apply_exclusions(rows, df, ExclusionConditions(all_funds[Head(order)])),
            all_funds, Tail(order))

Placement(idx, fund_name, fmv) ==
    [system_index |-> idx, fund_name |-> fund_name, system_fmv |-> fmv]

\* BuildCandidates that also drops the pairs that fit the fund's remaining
\* capacity exactly
BuildCandidates_ExactFitDropped(rows, df, data) ==
    Flatten([i \in 1..Len(df) |->
        SelectSeq([k \in 1..Len(FundOrder) |->
                      Placement(df[i], FundOrder[k], rows[df[i]].FMV)],
                  LAMBDA c : /\ ~(data[c.fund_name].remaining_capacity <= c.system_fmv)
                             /\ Feasible(data[c.fund_name], rows[c.system_index]))])

\* the placements in the order they are built: backlog rows, then funds
BuildCandidates(rows, df, data) ==
    Flatten([i \in 1..Len(df) |->
        SelectSeq([k \in 1..Len(FundOrder) |->
                      Placement(df[i], FundOrder[k], rows[df[i]].FMV)],
                  LAMBDA c : /\ ~(data[c.fund_name].remaining_capacity < c.system_fmv)
                             /\ Feasible(data[c.fund_name], rows[c.system_index]))])

\* the reasons the build loop adds to a fund's infeasible_constraints
BuildReasons(rows, df, fund_info) ==
    {InfeasibleReason(fund_info, rows[idx]) :
        idx \in {x \in Range(df) : /\ ~(fund_info.remaining_capacity < rows[x].FMV)
                                   /\ ~Feasible(fund_info, rows[x])}}

\* SortCandidates that puts an element before the elements of equal key
RECURSIVE SortCandidates_TiesReversed(_)
SortCandidates_TiesReversed(cands) ==
    IF cands = <<>> THEN <<>>
    ELSE LET n == Len(cands)
             x == cands[n]
             sorted == SortCandidates_TiesReversed(SubSeq(cands, 1, n - 1))
             before == Cardinality({i \in 1..Len(sorted) : -sorted[i].system_fmv < -x.system_fmv})
         IN SubSeq(sorted, 1, before) \o <<x>> \o SubSeq(sorted, before + 1, Len(sorted))

\* list.sort(key=lambda x: -x['system_fmv']) is stable: an element goes after
\* every element whose key is not larger
RECURSIVE SortCandidates(_)
SortCandidates(cands) ==
    IF cands = <<>> THEN <<>>
    ELSE LET n == Len(cands)
             x == cands[n]
             sorted == SortCandidates(SubSeq(cands, 1, n - 1))
             before == Cardinality({i \in 1..Len(sorted) : -sorted[i].system_fmv <= -x.system_fmv})
         IN SubSeq(sorted, 1, before) \o <<x>> \o SubSeq(sorted, before + 1, Len(sorted))

\* AnalysisRow that divides by the cap whatever it is
AnalysisRow_Unguarded(attribute, value, original_cap, remaining_cap) ==
    LET usage == original_cap - remaining_cap
    IN [constraint_name |-> attribute \o " = " \o value,
        usage |-> usage,
        upper_bound |-> original_cap,
        remaining_capacity |-> remaining_cap,
        usage_percentage |-> <<usage, original_cap>>]

\* one row of the constraint analysis
AnalysisRow(attribute, value, original_cap, remaining_cap) ==
    LET usage == original_cap - remaining_cap
    IN [constraint_name |-> attribute \o " = " \o value,
        usage |-> usage,
        upper_bound |-> original_cap,
        remaining_capacity |-> remaining_cap,
        usage_percentage |-> IF original_cap > 0 THEN <<usage, original_cap>> ELSE <<0, 1>>]

\* ConstraintAnalysis whose second call of the initializer hands back the
\* budgets the run has debited
ConstraintAnalysis_DebitedCaps(fund_info, constraints, target_capacity) ==
    LET original == fund_info.attribute_caps
        caps == fund_info.attribute_caps
    IN UNION {{AnalysisRow(a, v, original[a][v], caps[a][v]) : v \in DOMAIN caps[a]} :
                a \in DOMAIN caps}

ConstraintAnalysis(fund_info, constraints, target_capacity) ==
    LET original == AttributeCaps(initialize_constraint_caps(constraints, target_capacity))
        caps == fund_info.attribute_caps
    IN UNION {{AnalysisRow(a, v, original[a][v], caps[a][v]) : v \in DOMAIN caps[a]} :
                a \in DOMAIN caps}

----------------------------------------------------------------------------
(* run_optimization and the greedy allocator it calls: scratch_book.py *)

PER_CUSTOMER_FMV_LIMIT == 125000

\* NULL in the allocated_fund column
NULL == "NULL"

\* apply_constraints: the entries of constraint_caps that apply to a system,
\* those written for one value of one attribute
ApplicableConstraints(constraints, system) ==
    UNION {UNION {{constraints[i].name \o " - " \o constraints[i].conditions[j].values[k] :
                      k \in {x \in 1..Len(constraints[i].conditions[j].values) :
                                system[constraints[i].conditions[j].type]
                                    = constraints[i].conditions[j].values[x]}} :
                  j \in 1..Len(constraints[i].conditions)} :
           i \in {x \in 1..Len(constraints) :
                     constraints[x].active /\ constraints[x].apply_per_value}}

\* systems_df.sort_values(by='FMV', ascending=False)
SortByFMV(rows, ids) ==
    LET sorted == SortCandidates([i \in 1..Len(ids) |-> Placement(ids[i], "", rows[ids[i]].FMV)])
    IN [i \in 1..Len(sorted) |-> sorted[i].system_index]

\* the loop of allocate_systems over the sorted systems
RECURSIVE AllocateLoop(_, _, _, _, _, _, _)
AllocateLoop(rows, order, constraints, fund_remaining_capacity, caps, total_allocated_fmv, allocated_systems) ==
    IF order = <<>> THEN allocated_systems
    ELSE LET idx == Head(order)
             system_fmv == rows[idx].FMV
             applicable_constraints == ApplicableConstraints(constraints, rows[idx])
             skip == AllocateLoop(rows, Tail(order), constraints, fund_remaining_capacity,
                                  caps, total_allocated_fmv, allocated_systems)
         IN IF total_allocated_fmv + system_fmv > fund_remaining_capacity THEN skip
            ELSE IF 0 + system_fmv > PER_CUSTOMER_FMV_LIMIT THEN skip
            ELSE IF \E cname \in applicable_constraints : caps[cname] < system_fmv THEN skip
            ELSE LET debited == [cname \in DOMAIN caps |->
                                    IF cname \in applicable_constraints
                                    THEN caps[cname] - system_fmv ELSE caps[cname]]
                 IN IF total_allocated_fmv + system_fmv >= fund_remaining_capacity
                    THEN Append(allocated_systems, idx)
                    ELSE AllocateLoop(rows, Tail(order), constraints,
                                      fund_remaining_capacity, debited,
                                      total_allocated_fmv + system_fmv,
                                      Append(allocated_systems, idx))

\* allocate_systems_greedy(eligible_systems, fund, fund_remaining_capacity)
allocate_systems_greedy(rows, eligible_systems, constraints, capacity, fund_remaining_capacity) ==
    AllocateLoop(rows, SortByFMV(rows, eligible_systems), constraints,
                 fund_remaining_capacity,
                 scratch_initialize_constraint_caps(constraints, capacity), 0, <<>>)

\* SELECT * FROM backlog WHERE allocated_fund IS NULL
EligibleSystems(rows, column) ==
    SelectSeq([i \in 1..Len(rows) |-> i],
              LAMBDA i : rows[i].portfolio = Developer /\ column[i] = NULL)

\* UPDATE backlog SET allocated_fund = fund_name WHERE "System Name" IN allocated
update_allocations(column, allocated, fund_name) ==
    [i \in 1..Len(column) |-> IF i \in Range(allocated) THEN fund_name ELSE column[i]]

----------------------------------------------------------------------------
(* Inputs *)

States == {"CA", "NY"}
Partners == {"P1", "P2"}

\* a backlog row, and a row already in a fund's portfolio
BacklogRows == [FMV : 1..MaxFMV, state : States, partner : Partners, portfolio : {Developer}]
PortfolioRows == [FMV : 1..MaxFMV, state : {"CA"}, partner : {"P1"}, portfolio : FundNames]

\* per-value budgets on state from a value -> bound mapping: CA a quarter of
\* the target, TX 2 units, every other state half the target
StateCap ==
    Constraint("StateCap", UPPER_BOUND, <<1, 1>>, TRUE,
        <<Condition("state", TRUE, <<"CA", "TX", OTHERS>>, <<<<1, 4>>, <<2, 1>>, <<1, 2>>>>)>>,
        TRUE)

\* a per-value budget on partner from a plain list: P1 gets the constraint's 3 units
PartnerCap ==
    Constraint("PartnerCap", UPPER_BOUND, <<3, 1>>, TRUE,
        <<Condition("partner", FALSE, <<"P1">>, <<>>)>>, TRUE)

\* an exclusion of the systems in CA
ExcludeCA(active) ==
    Constraint("NoCA", EXCLUSION, None, FALSE,
        <<Condition("state", FALSE, <<"CA">>, <<>>)>>, active)

ConstraintChoices == {<<>>, <<StateCap, PartnerCap>>}
ExclusionChoices == {<<>>, <<ExcludeCA(TRUE)>>, <<ExcludeCA(FALSE), StateCap>>}
TargetChoices == {0, 1, 4}
ExclusionTargetChoices == {0, 4}

\* every fractional bound resolves to a whole number of units
AllExact(bounds, target) ==
    \A b \in bounds :
        IF b = None THEN TRUE
        ELSE IF b[1] > b[2] THEN TRUE ELSE (b[1] * target) % b[2] = 0

BoundsOf(constraints) ==
    UNION {{constraints[i].upper_bound} \cup
           UNION {Range(constraints[i].conditions[j].bounds) :
                    j \in 1..Len(constraints[i].conditions)} :
           i \in 1..Len(constraints)}

Exact(all_funds, targets) ==
    \A f \in FundNames : AllExact(BoundsOf(all_funds[f]), targets[f])

\* the backlog rows, then at most one row already in a fund's portfolio
InputSystems ==
    {backlog \o pre : backlog \in [1..NumSystems -> BacklogRows],
                      pre \in {<<>>} \cup {<<r>> : r \in PortfolioRows}}

NoCandidate == [system_index |-> 0, fund_name |-> "", system_fmv |-> 0]

\* the state on entry to allocate_systems_to_funds
InitRun ==
    /\ pc = "prepare"
    /\ fund_data = <<>>
    /\ df_backlog = [i \in 1..Len(df_systems) |-> i]
    /\ candidate_allocations = <<>>
    /\ pos = 1
    /\ unallocated_systems = {}
    /\ last = [candidate |-> NoCandidate, outcome |-> "none"]
    /\ allocation_results = <<>>
    /\ fund_model = <<>>
    /\ constraint_caps = <<>>
    /\ selected_funds = <<>>
    /\ allocated_fund = <<>>
    /\ selected_pos = 1
    /\ runner_results = <<>>

Init ==
    /\ df_systems \in InputSystems
    /\ funds \in [FundNames -> ConstraintChoices]
    /\ fund_targets \in [FundNames -> TargetChoices]
    /\ Exact(funds, fund_targets)
    /\ InitRun

\* funds with exclusions
InitExclusions ==
    /\ df_systems \in InputSystems
    /\ funds \in [FundNames -> ExclusionChoices]
    /\ fund_targets \in [FundNames -> ExclusionTargetChoices]
    /\ Exact(funds, fund_targets)
    /\ InitRun

\* the scenario of one fund with per-value budgets on state: CA half of the
\* target, TX three tenths of it
ScenarioStateCap(upper_bound) ==
    Constraint("StateCap", UPPER_BOUND, upper_bound, TRUE,
        <<Condition("state", TRUE, <<"CA", "TX">>, <<<<1, 2>>, <<3, 10>>>>)>>, TRUE)

ScenarioRow(fmv, state) ==
    [FMV |-> fmv, state |-> state, partner |-> "P1", portfolio |-> Developer]

S1 == ScenarioRow(400000, "CA")
S2 == ScenarioRow(300000, "TX")
S3 == ScenarioRow(200000, "CA")
S4 == ScenarioRow(100000, "NY")

\* the scenario's backlog, and the backlogs made of some of its systems in any order
ScenarioBacklog == <<S1, S2, S3, S4>>
ScenarioBacklogs ==
    {s \in UNION {[1..n -> Range(ScenarioBacklog)] : n \in 1..Len(ScenarioBacklog)} :
        \A i, j \in 1..Len(s) : s[i] = s[j] => i = j}

ScenarioConstraintChoices ==
    {<<>>} \cup {<<ScenarioStateCap(ub)>> : ub \in {<<0, 1>>, <<1, 2>>, <<1, 1>>}}
ScenarioTargetChoices == {0, 500000, 1000000}
OtherFundTargetChoices == {0, 300000}

\* the scenario, variations of it, and a second fund without constraints
InitScenario ==
    /\ df_systems \in ScenarioBacklogs
    /\ funds \in {[F1 |-> c, F2 |-> <<>>] : c \in ScenarioConstraintChoices}
    /\ fund_targets \in {[F1 |-> t, F2 |-> u] : t \in ScenarioTargetChoices,
                                                 u \in OtherFundTargetChoices}
    /\ Exact(funds, fund_targets)
    /\ InitRun

\* backlogs of one more system, of FMV up to one more unit, for the re-runs
RerunRows == [FMV : 1..(MaxFMV + 1), state : States, partner : {"P1"}, portfolio : {Developer}]
RerunBacklogs == [1..(NumSystems + 1) -> RerunRows]
RerunTargetChoices == {0, 4}

InitRerun ==
    /\ df_systems \in RerunBacklogs
    /\ funds \in [FundNames -> ConstraintChoices]
    /\ fund_targets \in [FundNames -> RerunTargetChoices]
    /\ Exact(funds, fund_targets)
    /\ InitRun

\* constraints of every shape the initializer tells apart
\* a mapping with a bound of 0, a bound that is missing and a fraction
MappingCap(upper_bound) ==
    Constraint("StateMap", UPPER_BOUND, upper_bound, TRUE,
        <<Condition("state", TRUE, <<"CA", "TX", OTHERS>>, <<<<0, 1>>, None, <<1, 2>>>>)>>,
        TRUE)

\* a plain list of values under the constraint's own bound, one budget each
ListCap(upper_bound) ==
    Constraint("PartnerList", UPPER_BOUND, upper_bound, TRUE,
        <<Condition("partner", FALSE, <<"P1", "P2">>, <<>>)>>, TRUE)

\* one bound for a group of values
GroupCap(upper_bound) ==
    Constraint("StateGroup", UPPER_BOUND, upper_bound, FALSE,
        <<Condition("state", FALSE, <<"CA", "NY">>, <<>>)>>, TRUE)

\* constraints the initializer passes over, with some bound and values
InactiveCap(upper_bound, values) ==
    Constraint("Inactive", UPPER_BOUND, upper_bound, TRUE,
        <<Condition("state", FALSE, values, <<>>)>>, FALSE)
ExclusionWithBound(upper_bound, values) ==
    Constraint("Excluded", EXCLUSION, upper_bound, FALSE,
        <<Condition("state", FALSE, values, <<>>)>>, TRUE)

BudgetChoices ==
    {<<>>,
     <<MappingCap(<<1, 1>>)>>, <<MappingCap(None)>>,
     <<ListCap(<<1, 2>>)>>, <<ListCap(<<1, 1>>)>>, <<ListCap(<<3, 1>>)>>,
     <<GroupCap(<<1, 2>>)>>,
     <<InactiveCap(<<1, 4>>, <<"CA">>), GroupCap(<<1, 2>>)>>,
     <<ExclusionWithBound(<<1, 4>>, <<"TX">>), ListCap(<<1, 2>>)>>}
BudgetTargetChoices == {0, 4}
BudgetBacklogRows == [FMV : 1..MaxFMV, state : States, partner : {"P1"}, portfolio : {Developer}]
BudgetSystems ==
    {backlog \o pre : backlog \in [1..NumSystems -> BudgetBacklogRows],
                      pre \in {<<>>} \cup {<<r>> : r \in PortfolioRows}}

\* a fund with constraints of one of the shapes beside a fund without constraints
InitBudgets ==
    /\ df_systems \in BudgetSystems
    /\ funds \in {[F1 |-> c, F2 |-> <<>>] : c \in BudgetChoices}
    /\ fund_targets \in [FundNames -> BudgetTargetChoices]
    /\ Exact(funds, fund_targets)
    /\ InitRun

\* a mapping with a bound of exactly 1 and an absolute bound
UnitMapCap ==
    Constraint("UnitMap", UPPER_BOUND, <<1, 2>>, TRUE,
        <<Condition("state", TRUE, <<"CA", "TX">>, <<<<1, 1>>, <<3, 1>>>>)>>, TRUE)

\* the same mapping in a constraint without an overall bound (the default)
UnitMapNoBound == [UnitMapCap EXCEPT !.upper_bound = None]

InitializerChoices ==
    BudgetChoices \cup {<<UnitMapCap>>, <<UnitMapNoBound>>, <<GroupCap(<<1, 1>>)>>}
InitializerTargetChoices == {0, 2, 4}

\* the inputs of a call of an initializer on its own
InitInitializers ==
    /\ df_systems = <<>>
    /\ funds \in [FundNames -> InitializerChoices]
    /\ fund_targets \in [FundNames -> InitializerTargetChoices]
    /\ Exact(funds, fund_targets)
    /\ InitRun

\* a row already in a fund's portfolio, in any state
PriorRows == [FMV : 1..MaxFMV, state : States, partner : {"P1"}, portfolio : FundNames]
PortfolioSystems ==
    {backlog \o <<r>> : backlog \in [1..NumSystems -> BudgetBacklogRows], r \in PriorRows}

\* a fund with a portfolio already, with or without budgets, beside a fund
\* without constraints
InitPortfolio ==
    /\ df_systems \in PortfolioSystems
    /\ funds \in {[F1 |-> c, F2 |-> <<>>] : c \in ConstraintChoices}
    /\ fund_targets \in [FundNames -> BudgetTargetChoices]
    /\ Exact(funds, fund_targets)
    /\ InitRun

\* a per-value budget on the state CA
ValueCap(name, upper_bound) ==
    Constraint(name, UPPER_BOUND, upper_bound, TRUE,
        <<Condition("state", FALSE, <<"CA">>, <<>>)>>, TRUE)

\* two constraints of one fund that cover the same value: a per-value budget
\* and a group budget, or two per-value budgets, in either order
OverlapChoices ==
    {<<ValueCap("CACap", <<1, 4>>), GroupCap(<<1, 2>>)>>,
     <<GroupCap(<<1, 2>>), ValueCap("CACap", <<1, 4>>)>>,
     <<ValueCap("CACap", <<1, 4>>), ValueCap("CAWide", <<1, 2>>)>>,
     <<ValueCap("CAWide", <<1, 2>>), ValueCap("CACap", <<1, 4>>)>>}

InitOverlap ==
    /\ df_systems \in BudgetSystems
    /\ funds \in {[F1 |-> c, F2 |-> <<>>] : c \in OverlapChoices}
    /\ fund_targets \in [FundNames -> BudgetTargetChoices]
    /\ Exact(funds, fund_targets)
    /\ InitRun

\* the backlogs of two of the scenario's systems
OnePassBacklogs == {s \in ScenarioBacklogs : Len(s) = Len(FundOrder)}

InitOnePass ==
    /\ df_systems \in OnePassBacklogs
    /\ funds \in {[F1 |-> c, F2 |-> <<>>] : c \in ScenarioConstraintChoices}
    /\ fund_targets \in {[F1 |-> t, F2 |-> u] : t \in ScenarioTargetChoices,
                                                 u \in OtherFundTargetChoices}
    /\ Exact(funds, fund_targets)
    /\ InitRun

\* budgets on partner only, budgets on state and partner, and budgets on state
\* beside an inactive constraint that names NY
UnconstrainedChoices ==
    {<<PartnerCap>>, <<StateCap, PartnerCap>>,
     <<InactiveCap(<<1, 4>>, <<"NY">>), StateCap>>}

InitUnconstrained ==
    /\ df_systems \in [1..NumSystems -> BacklogRows]
    /\ funds \in {[F1 |-> c, F2 |-> <<>>] : c \in UnconstrainedChoices}
    /\ fund_targets \in [FundNames -> TargetChoices]
    /\ Exact(funds, fund_targets)
    /\ InitRun

\* the funds selected for run_optimization, in the order selected
SelectedChoices ==
    {s \in UNION {[1..n -> FundNames] : n \in 1..Len(FundOrder)} :
        \A i, j \in 1..Len(s) : s[i] = s[j] => i = j}

\* funds without constraints, with per-value budgets on partner, and with a
\* mapping that has a value without a bound
RunnerChoices == {<<>>, <<ListCap(<<1, 2>>)>>, <<MappingCap(<<1, 1>>)>>}

\* the state on entry to run_optimization: the backlog table is new, every
\* allocated_fund is NULL
InitRunner ==
    /\ df_systems \in BudgetSystems
    /\ funds \in [FundNames -> RunnerChoices]
    /\ fund_targets \in [FundNames -> BudgetTargetChoices]
    /\ Exact(funds, fund_targets)
    /\ selected_funds \in SelectedChoices
    /\ allocated_fund = [i \in 1..Len(df_systems) |-> NULL]
    /\ selected_pos = 1
    /\ runner_results = <<>>
    /\ pc = "run"
    /\ fund_data = <<>>
    /\ df_backlog = <<>>
    /\ candidate_allocations = <<>>
    /\ pos = 1
    /\ unallocated_systems = {}
    /\ last = [candidate |-> NoCandidate, outcome |-> "none"]
    /\ allocation_results = <<>>
    /\ fund_model = <<>>
    /\ constraint_caps = <<>>

----------------------------------------------------------------------------
(* allocate_systems_to_funds, step by step *)

inputs == <<df_systems, funds, fund_targets>>

\* the state of run_optimization
runner == <<selected_funds, allocated_fund, selected_pos, runner_results>>

\* the results of calling an initializer on its own, and the other entry point
calls == <<fund_model, constraint_caps, runner>>

\* Step 1 ends in the initializer's ValueError: the run is abandoned
RaiseInvalidCapacity ==
    /\ pc = "prepare"
    /\ \E f \in FundNames : RaisesInvalidCapacity(funds[f], fund_targets[f])
    /\ pc' = "error"
    /\ UNCHANGED <<inputs, calls, fund_data, df_backlog, candidate_allocations, pos,
                   unallocated_systems, last, allocation_results>>

\* Step 1: fund data of every fund
PrepareFundData ==
    /\ pc = "prepare"
    /\ \A f \in FundNames : ~RaisesInvalidCapacity(funds[f], fund_targets[f])
    /\ fund_data' = [f \in FundNames |-> FundData(df_systems, f, funds[f], fund_targets[f])]
    /\ pc' = "build"
    /\ UNCHANGED <<inputs, calls, df_backlog, candidate_allocations, pos,
                   unallocated_systems, last, allocation_results>>

\* Steps 2 and 3: the backlog is filtered, the placements are built and sorted
BuildCandidateAllocations ==
    /\ pc = "build"
    /\ LET df == ApplyAllExclusions(df_systems, DropAllocated(df_systems, df_backlog),
                                    funds, FundOrder)
       IN /\ df_backlog' = df
          /\ fund_data' = [f \in FundNames |->
                [fund_data[f] EXCEPT !.infeasible_constraints =
                    @ \cup BuildReasons(df_systems, df, fund_data[f])]]
          /\ candidate_allocations' = SortCandidates(BuildCandidates(df_systems, df, fund_data))
          /\ unallocated_systems' = Range(df)
    /\ pos' = 1
    /\ pc' = "allocate"
    /\ UNCHANGED <<inputs, calls, last, allocation_results>>

Outcome(candidate, outcome) == [candidate |-> candidate, outcome |-> outcome]

\* RejectInfeasible that keeps the placement to examine it again
RejectInfeasible_Retries ==
    /\ pc = "allocate" /\ pos <= Len(candidate_allocations)
    /\ LET candidate == candidate_allocations[pos]
           fund_info == fund_data[candidate.fund_name]
       IN /\ candidate.system_index \in unallocated_systems
          /\ ~(fund_info.remaining_capacity < candidate.system_fmv)
          /\ ~Feasible(fund_info, df_systems[candidate.system_index])
          /\ last' = Outcome(candidate, "infeasible")
    /\ pos' = pos
    /\ UNCHANGED <<inputs, calls, pc, fund_data, df_backlog, candidate_allocations,
                   unallocated_systems, allocation_results>>

\* Step 4, one candidate: if system_idx not in unallocated_systems: continue
SkipAllocated ==
    /\ pc = "allocate" /\ pos <= Len(candidate_allocations)
    /\ LET candidate == candidate_allocations[pos]
       IN /\ candidate.system_index \notin unallocated_systems
          /\ last' = Outcome(candidate, "taken")
    /\ pos' = pos + 1
    /\ UNCHANGED <<inputs, calls, pc, fund_data, df_backlog, candidate_allocations,
                   unallocated_systems, allocation_results>>

\* Step 4, one candidate: if fund_info['remaining_capacity'] < system_fmv: continue
SkipNoCapacity ==
    /\ pc = "allocate" /\ pos <= Len(candidate_allocations)
    /\ LET candidate == candidate_allocations[pos]
       IN /\ candidate.system_index \in unallocated_systems
          /\ fund_data[candidate.fund_name].remaining_capacity < candidate.system_fmv
          /\ last' = Outcome(candidate, "no_capacity")
    /\ pos' = pos + 1
    /\ UNCHANGED <<inputs, calls, pc, fund_data, df_backlog, candidate_allocations,
                   unallocated_systems, allocation_results>>

\* Step 4, one candidate: a matched budget has too little left
RejectInfeasible ==
    /\ pc = "allocate" /\ pos <= Len(candidate_allocations)
    /\ LET candidate == candidate_allocations[pos]
           fund_info == fund_data[candidate.fund_name]
       IN /\ candidate.system_index \in unallocated_systems
          /\ ~(fund_info.remaining_capacity < candidate.system_fmv)
          /\ ~Feasible(fund_info, df_systems[candidate.system_index])
          /\ last' = Outcome(candidate, "infeasible")
    /\ pos' = pos + 1
    /\ UNCHANGED <<inputs, calls, pc, fund_data, df_backlog, candidate_allocations,
                   unallocated_systems, allocation_results>>

\* AllocateSystem that leaves the system in unallocated_systems
AllocateSystem_KeepsUnallocated ==
    /\ pc = "allocate" /\ pos <= Len(candidate_allocations)
    /\ LET candidate == candidate_allocations[pos]
           fund_info == fund_data[candidate.fund_name]
           system == df_systems[candidate.system_index]
       IN /\ candidate.system_index \in unallocated_systems
          /\ ~(fund_info.remaining_capacity < candidate.system_fmv)
          /\ Feasible(fund_info, system)
          /\ fund_data' = [fund_data EXCEPT ![candidate.fund_name] =
                              Allocate(fund_info, candidate.system_index, system)]
          /\ unallocated_systems' = unallocated_systems
          /\ last' = Outcome(candidate, "allocated")
    /\ pos' = pos + 1
    /\ UNCHANGED <<inputs, calls, pc, df_backlog, candidate_allocations, allocation_results>>

\* Step 4, one candidate: the system is allocated to the fund
AllocateSystem ==
    /\ pc = "allocate" /\ pos <= Len(candidate_allocations)
    /\ LET candidate == candidate_allocations[pos]
           fund_info == fund_data[candidate.fund_name]
           system == df_systems[candidate.system_index]
       IN /\ candidate.system_index \in unallocated_systems
          /\ ~(fund_info.remaining_capacity < candidate.system_fmv)
          /\ Feasible(fund_info, system)
          /\ fund_data' = [fund_data EXCEPT ![candidate.fund_name] =
                              Allocate(fund_info, candidate.system_index, system)]
          /\ unallocated_systems' = unallocated_systems \ {candidate.system_index}
          /\ last' = Outcome(candidate, "allocated")
    /\ pos' = pos + 1
    /\ UNCHANGED <<inputs, calls, pc, df_backlog, candidate_allocations, allocation_results>>

\* Step 5: results of every fund
CompileResults ==
    /\ pc = "allocate" /\ pos > Len(candidate_allocations)
    /\ allocation_results' = [f \in FundNames |->
            [allocated_systems |-> fund_data[f].allocated_systems,
             infeasible_constraints |-> fund_data[f].infeasible_constraints,
             constraint_analysis |-> ConstraintAnalysis(fund_data[f], funds[f], fund_targets[f])]]
    /\ pc' = "done"
    /\ UNCHANGED <<inputs, calls, fund_data, df_backlog, candidate_allocations, pos,
                   unallocated_systems, last>>

\* a call of constraints/constraint_utils.py initialize_constraint_caps for each fund
CallInitializer ==
    /\ pc = "prepare"
    /\ \A f \in FundNames : ~RaisesInvalidCapacity(funds[f], fund_targets[f])
    /\ fund_model' = [f \in FundNames |->
                        initialize_constraint_caps(funds[f], fund_targets[f])]
    /\ pc' = "initialized"
    /\ UNCHANGED <<inputs, constraint_caps, runner, fund_data, df_backlog, candidate_allocations,
                   pos, unallocated_systems, last, allocation_results>>

\* a call of scratch_book.py initialize_constraint_caps for each fund
CallScratchInitializer ==
    /\ pc = "prepare"
    /\ \A f \in FundNames : ~ScratchRaisesTypeError(funds[f])
    /\ constraint_caps' = [f \in FundNames |->
                        scratch_initialize_constraint_caps(funds[f], fund_targets[f])]
    /\ pc' = "scratch_initialized"
    /\ UNCHANGED <<inputs, fund_model, runner, fund_data, df_backlog, candidate_allocations,
                   pos, unallocated_systems, last, allocation_results>>

\* the call of scratch_book.py initialize_constraint_caps ends in a TypeError
CallScratchInitializerFails ==
    /\ pc = "prepare"
    /\ \E f \in FundNames : ScratchRaisesTypeError(funds[f])
    /\ pc' = "scratch_error"
    /\ UNCHANGED <<inputs, calls, fund_data, df_backlog, candidate_allocations,
                   pos, unallocated_systems, last, allocation_results>>

\* the state run_optimization leaves alone
allocation == <<inputs, fund_model, constraint_caps, fund_data, df_backlog,
                candidate_allocations, pos, unallocated_systems, last, allocation_results>>

\* fund_remaining_capacity = target_amount - allocated_amount
FundRemainingCapacity(f) ==
    fund_targets[f] - SumFMV(df_systems, Range(AllocatedTo(df_systems, f)))

RunnerResult(rows, allocated_systems) ==
    [allocated_fmv |-> SumFMV(rows, Range(allocated_systems)),
     allocated_systems |-> allocated_systems]

\* one fund of the loop: if fund_remaining_capacity <= 0: ... continue
RunFundNoCapacity ==
    /\ pc = "run" /\ selected_pos <= Len(selected_funds)
    /\ LET fund_name == selected_funds[selected_pos]
       IN /\ FundRemainingCapacity(fund_name) <= 0
          /\ runner_results' = [f \in DOMAIN runner_results \cup {fund_name} |->
                                  IF f = fund_name THEN RunnerResult(df_systems, <<>>)
                                  ELSE runner_results[f]]
    /\ selected_pos' = selected_pos + 1
    /\ UNCHANGED <<allocation, pc, selected_funds, allocated_fund>>

\* one fund of the loop: the call of allocate_systems_greedy ends in the
\* TypeError of its initializer
RunFundFails ==
    /\ pc = "run" /\ selected_pos <= Len(selected_funds)
    /\ LET fund_name == selected_funds[selected_pos]
       IN /\ FundRemainingCapacity(fund_name) > 0
          /\ ScratchRaisesTypeError(funds[fund_name])
    /\ pc' = "run_error"
    /\ UNCHANGED <<allocation, runner>>

\* one fund of the loop: the backlog is queried, the systems are allocated,
\* and the allocated ones are marked in the query's result, eligible_systems;
\* the backlog table is not written
RunFund ==
    /\ pc = "run" /\ selected_pos <= Len(selected_funds)
    /\ LET fund_name == selected_funds[selected_pos]
           eligible_systems == EligibleSystems(df_systems, allocated_fund)
           allocated_systems_df ==
               allocate_systems_greedy(df_systems, eligible_systems, funds[fund_name],
                                       fund_targets[fund_name],
                                       FundRemainingCapacity(fund_name))
       IN /\ FundRemainingCapacity(fund_name) > 0
          /\ ~ScratchRaisesTypeError(funds[fund_name])
          /\ runner_results' = [f \in DOMAIN runner_results \cup {fund_name} |->
                                  IF f = fund_name
                                  THEN RunnerResult(df_systems, allocated_systems_df)
                                  ELSE runner_results[f]]
    /\ selected_pos' = selected_pos + 1
    /\ UNCHANGED <<allocation, pc, selected_funds, allocated_fund>>

\* return allocation_results
RunReturns ==
    /\ pc = "run" /\ selected_pos > Len(selected_funds)
    /\ pc' = "run_done"
    /\ UNCHANGED <<allocation, runner>>

Next ==
    \/ RaiseInvalidCapacity
    \/ PrepareFundData
    \/ BuildCandidateAllocations
    \/ SkipAllocated
    \/ SkipNoCapacity
    \/ RejectInfeasible
    \/ AllocateSystem
    \/ CompileResults

Spec == Init /\ [][Next]_vars

SpecExclusions == InitExclusions /\ [][Next]_vars

SpecScenario == InitScenario /\ [][Next]_vars

SpecRerun == InitRerun /\ [][Next]_vars

SpecBudgets == InitBudgets /\ [][Next]_vars

SpecPortfolio == InitPortfolio /\ [][Next]_vars

SpecOverlap == InitOverlap /\ [][Next]_vars

SpecUnconstrained == InitUnconstrained /\ [][Next]_vars

\* one iteration of the for loop of Step 4, or the step after the loop
LoopStep ==
    \/ SkipAllocated
    \/ SkipNoCapacity
    \/ RejectInfeasible
    \/ AllocateSystem
    \/ CompileResults

\* runs on pairs of the scenario's systems in which the for loop of Step 4,
\* once entered, goes on to its next candidate and then to Step 5
SpecOnePass == InitOnePass /\ [][Next]_vars /\ WF_vars(LoopStep)

\* the initializers called on their own
NextInitializers ==
    \/ RaiseInvalidCapacity
    \/ CallInitializer
    \/ CallScratchInitializer
    \/ CallScratchInitializerFails

SpecInitializers == InitInitializers /\ [][NextInitializers]_vars

\* run_optimization
NextRunner ==
    \/ RunFundNoCapacity
    \/ RunFundFails
    \/ RunFund
    \/ RunReturns

SpecRunner == InitRunner /\ [][NextRunner]_vars

----------------------------------------------------------------------------
(* Properties *)

Prepared == pc \in {"build", "allocate", "done"}
Built == pc \in {"allocate", "done"}

TotalFMV(ids) == SumFMV(df_systems, ids)
PreAllocated(f) == Range(AllocatedTo(df_systems, f))
NewlyAllocated(f) == Range(fund_data[f].allocated_systems) \ PreAllocated(f)
OriginalCaps(f) == AttributeCaps(initialize_constraint_caps(funds[f], fund_targets[f]))

\* the budgets of an attribute a system matches: its own value's budget, else
\* the OTHERS budget when its value is not named explicitly
MatchedBudgets(fund_info, a, system) ==
    LET keys == DOMAIN fund_info.attribute_caps[a]
    IN IF system[a] \in keys THEN {system[a]}
       ELSE {k \in keys : k = OTHERS /\ system[a] \notin fund_info.constrained_values[a]}

C2_BudgetsWithinCaps ==
    /\ Prepared =>
        \A f \in FundNames :
            \A a \in DOMAIN fund_data[f].attribute_caps :
                \A v \in DOMAIN fund_data[f].attribute_caps[a] :
                    /\ 0 <= fund_data[f].attribute_caps[a][v]
                    /\ fund_data[f].attribute_caps[a][v] <= OriginalCaps(f)[a][v]
    /\ pc = "done" =>
        \A f \in FundNames :
            \A row \in allocation_results[f].constraint_analysis :
                0 <= row.usage /\ row.usage <= row.upper_bound

\* a budget that a pre-existing system overdrew is reported, and another one was
\* used up by the run
C2_Witness ==
    /\ pc = "done"
    /\ \E f \in FundNames :
        /\ \E i \in PreAllocated(f) :
              "state" \in DOMAIN OriginalCaps(f)
              /\ df_systems[i].state \in DOMAIN OriginalCaps(f)["state"]
              /\ df_systems[i].FMV > OriginalCaps(f)["state"][df_systems[i].state]
        /\ NewlyAllocated(f) # {}
        /\ \E row \in allocation_results[f].constraint_analysis :
              row.upper_bound > 0 /\ row.remaining_capacity = 0 /\ row.usage = row.upper_bound

\* the step of the allocation loop that processes the candidate at pos
Candidate == candidate_allocations[pos]
CandidateFund == fund_data[Candidate.fund_name]
CandidateSystem == df_systems[Candidate.system_index]
Processes == pc = "allocate" /\ pos' = pos + 1
Admits ==
    Candidate.system_index \in
        Range(fund_data'[Candidate.fund_name].allocated_systems) \ Range(CandidateFund.allocated_systems)

\* every budget the system matches in the fund has room for it
BudgetsHaveRoom(fund_info, system) ==
    \A a \in DOMAIN fund_info.attribute_caps :
        \A v \in MatchedBudgets(fund_info, a, system) :
            fund_info.attribute_caps[a][v] >= system.FMV

\* C3: processing one candidate is all-or-nothing: either the fund's remaining
\* capacity and every budget the system matches (and no other) go down by the
\* system's FMV and the system joins the fund's allocated set, or nothing changes;
\* the budgets checked for room are the budgets debited.
C3_AtomicAdmission ==
    [][Processes =>
        LET f == Candidate.fund_name
            fmv == CandidateSystem.FMV
            before == CandidateFund
            after == fund_data'[f]
        IN /\ \A a \in DOMAIN before.attribute_caps :
                CheckedKeys(before, a, CandidateSystem) = DebitedKeys(before, a, CandidateSystem)
           /\ \/ /\ after.remaining_capacity = before.remaining_capacity - fmv
                 /\ before.remaining_capacity >= fmv
                 /\ DOMAIN after.attribute_caps = DOMAIN before.attribute_caps
                 /\ \A a \in DOMAIN before.attribute_caps :
                        /\ DOMAIN after.attribute_caps[a] = DOMAIN before.attribute_caps[a]
                        /\ \A v \in DOMAIN before.attribute_caps[a] :
                              IF v \in MatchedBudgets(before, a, CandidateSystem)
                              THEN /\ after.attribute_caps[a][v] = before.attribute_caps[a][v] - fmv
                                   /\ before.attribute_caps[a][v] >= fmv
                              ELSE after.attribute_caps[a][v] = before.attribute_caps[a][v]
                 /\ after.allocated_systems = Append(before.allocated_systems, Candidate.system_index)
                 /\ \A g \in FundNames \ {f} : fund_data'[g] = fund_data[g]
                 /\ unallocated_systems' = unallocated_systems \ {Candidate.system_index}
              \/ /\ fund_data' = fund_data
                 /\ unallocated_systems' = unallocated_systems]_vars

\* a system that matches the OTHERS budget of state and the P1 budget of partner
\* has been allocated
C3_Witness ==
    /\ pc = "allocate"
    /\ last.outcome = "allocated"
    /\ LET system == df_systems[last.candidate.system_index]
           fund_info == fund_data[last.candidate.fund_name]
       IN /\ DOMAIN fund_info.attribute_caps = {"state", "partner"}
          /\ MatchedBudgets(fund_info, "state", system) = {OTHERS}
          /\ MatchedBudgets(fund_info, "partner", system) = {"P1"}

\* C4: a candidate is admitted if and only if, when it is processed, it is still
\* unallocated, the fund's remaining capacity is at least its FMV and so is the
\* remaining of every budget it matches; an FMV equal to the headroom is
\* admitted and leaves 0.
C4_AdmissionIff ==
    [][Processes =>
        LET fmv == CandidateSystem.FMV
            before == CandidateFund
            after == fund_data'[Candidate.fund_name]
        IN /\ Admits <=> /\ Candidate.system_index \in unallocated_systems
                         /\ before.remaining_capacity >= fmv
                         /\ BudgetsHaveRoom(before, CandidateSystem)
           /\ Admits /\ before.remaining_capacity = fmv => after.remaining_capacity = 0
           /\ Admits =>
                \A a \in DOMAIN before.attribute_caps :
                    \A v \in MatchedBudgets(before, a, CandidateSystem) :
                        before.attribute_caps[a][v] = fmv => after.attribute_caps[a][v] = 0]_vars

\* a system was admitted whose FMV was exactly what a matched budget had left,
\* while the fund itself keeps headroom
C4_Witness ==
    /\ pc = "allocate"
    /\ last.outcome = "allocated"
    /\ LET system == df_systems[last.candidate.system_index]
           fund_info == fund_data[last.candidate.fund_name]
       IN /\ fund_info.remaining_capacity > 0
          /\ \E a \in DOMAIN fund_info.attribute_caps :
                \E v \in MatchedBudgets(fund_info, a, system) :
                    fund_info.attribute_caps[a][v] = 0

\* C5: for the attribute state with budgets for CA, TX and OTHERS, a system of
\* another state is checked against and debits the OTHERS budget only, and a
\* system in CA is checked against and debits the CA budget only, in the
\* candidate list, in the admission test and in the debit.
C5_OthersExclusive ==
    [][/\ Processes =>
           LET caps == CandidateFund.attribute_caps
               system == CandidateSystem
               own == IF system.state \in {"CA", "TX"} THEN system.state ELSE OTHERS
               elsewhere == \A a \in DOMAIN caps \ {"state"} :
                               \A v \in MatchedBudgets(CandidateFund, a, system) :
                                   caps[a][v] >= system.FMV
           IN ("state" \in DOMAIN caps /\ DOMAIN caps["state"] = {"CA", "TX", OTHERS}) =>
                LET after == fund_data'[Candidate.fund_name].attribute_caps["state"]
                IN /\ \A v \in {"CA", "TX", OTHERS} \ {own} : after[v] = caps["state"][v]
                   /\ Admits => after[own] = caps["state"][own] - system.FMV
                   /\ Admits <=> /\ Candidate.system_index \in unallocated_systems
                                 /\ CandidateFund.remaining_capacity >= system.FMV
                                 /\ elsewhere
                                 /\ caps["state"][own] >= system.FMV
       /\ (pc = "build" /\ pc' = "allocate") =>
           \A f \in FundNames : \A idx \in Range(df_backlog') :
               LET caps == fund_data[f].attribute_caps
                   system == df_systems[idx]
                   own == IF system.state \in {"CA", "TX"} THEN system.state ELSE OTHERS
                   elsewhere == \A a \in DOMAIN caps \ {"state"} :
                                   \A v \in MatchedBudgets(fund_data[f], a, system) :
                                       caps[a][v] >= system.FMV
               IN ("state" \in DOMAIN caps /\ DOMAIN caps["state"] = {"CA", "TX", OTHERS}) =>
                    (Placement(idx, f, system.FMV) \in Range(candidate_allocations')
                        <=> /\ fund_data[f].remaining_capacity >= system.FMV
                            /\ elsewhere
                            /\ caps["state"][own] >= system.FMV)]_vars

\* a system outside CA and TX was allocated to a fund whose CA budget had nothing
\* left, and its OTHERS budget paid for it
C5_Witness ==
    /\ pc = "allocate"
    /\ last.outcome = "allocated"
    /\ LET system == df_systems[last.candidate.system_index]
           fund_info == fund_data[last.candidate.fund_name]
       IN /\ system.state = "NY"
          /\ "state" \in DOMAIN fund_info.attribute_caps
          /\ fund_info.attribute_caps["state"]["CA"] = 0
          /\ fund_info.attribute_caps["state"][OTHERS]
                = OriginalCaps(last.candidate.fund_name)["state"][OTHERS] - system.FMV

\* the system matches a condition of an active Exclusion constraint of fund f
MatchesExclusion(f, system) ==
    \E i \in 1..Len(funds[f]) :
        /\ funds[f][i].active
        /\ funds[f][i].constraint_type = EXCLUSION
        /\ \E j \in 1..Len(funds[f][i].conditions) :
              LET condition == funds[f][i].conditions[j]
              IN system[condition.type] \in Range(condition.values)

\* the rows of the developer's backlog
Backlog == {idx \in 1..Len(df_systems) : df_systems[idx].portfolio = Developer}
Builds == pc = "build" /\ pc' = "allocate"

C7_ExclusionsPerFund ==
    [][Builds =>
        \A f \in FundNames : \A idx \in Backlog :
            LET system == df_systems[idx]
            IN (/\ ~MatchesExclusion(f, system)
                /\ fund_data[f].remaining_capacity >= system.FMV
                /\ BudgetsHaveRoom(fund_data[f], system))
               => \E k \in 1..Len(candidate_allocations') :
                     candidate_allocations'[k] = Placement(idx, f, system.FMV)]_vars

RowPos(df, idx) == CHOOSE k \in 1..Len(df) : df[k] = idx
FundPos(f) == CHOOSE k \in 1..Len(FundOrder) : FundOrder[k] = f
BuiltBefore(df, c, d) ==
    \/ RowPos(df, c.system_index) < RowPos(df, d.system_index)
    \/ /\ c.system_index = d.system_index
       /\ FundPos(c.fund_name) < FundPos(d.fund_name)
CanAdmit(fund_info, system) ==
    /\ fund_info.remaining_capacity >= system.FMV
    /\ BudgetsHaveRoom(fund_info, system)

\* C9: the placements are processed one after the other in a list that is in
\* non-increasing FMV order with equal FMVs in build order (backlog row, then
\* the funds mapping order), and a system that is admitted goes to the earliest
\* fund in mapping order that can admit it.
C9_GlobalFmvOrder ==
    [][/\ pc' = "allocate" =>
            /\ \A i, j \in 1..Len(candidate_allocations') :
                  i < j =>
                    LET c == candidate_allocations'[i]
                        d == candidate_allocations'[j]
                    IN \/ c.system_fmv > d.system_fmv
                       \/ c.system_fmv = d.system_fmv /\ BuiltBefore(df_backlog', c, d)
            /\ \A i \in 1..Len(candidate_allocations') :
                  candidate_allocations'[i].system_fmv
                      = df_systems[candidate_allocations'[i].system_index].FMV
       /\ pc = "allocate" /\ pc' = "allocate" =>
            /\ pos' = pos + 1
            /\ last'.candidate = candidate_allocations[pos]
            /\ candidate_allocations' = candidate_allocations
       /\ Processes /\ Admits =>
            \A g \in FundNames :
                FundPos(g) < FundPos(Candidate.fund_name)
                    => ~CanAdmit(fund_data[g], CandidateSystem)]_vars

\* a system that two funds could admit went to the first of them, ahead of a
\* placement of equal FMV for a later backlog row
C9_Witness ==
    /\ pc = "allocate"
    /\ last.outcome = "allocated"
    /\ last.candidate.fund_name = FundOrder[1]
    /\ LET idx == last.candidate.system_index
       IN /\ CanAdmit(fund_data[FundOrder[2]], df_systems[idx])
          /\ \E k \in 1..Len(candidate_allocations) :
                candidate_allocations[k] = Placement(idx, FundOrder[2], df_systems[idx].FMV)
          /\ \E k \in pos..Len(candidate_allocations) :
                /\ candidate_allocations[k].system_index # idx
                /\ candidate_allocations[k].system_fmv = df_systems[idx].FMV

\* C10: a system admitted to a fund is admitted to no other: every later
\* placement of it is skipped and changes nothing, and the newly allocated sets
\* of distinct funds are disjoint during the run and in its results.
C10_AtMostOneFund ==
    [][/\ Processes =>
            ((\E g \in FundNames : Candidate.system_index \in NewlyAllocated(g))
                => /\ fund_data' = fund_data
                   /\ unallocated_systems' = unallocated_systems
                   /\ last'.outcome = "taken")
       /\ Prepared' =>
            /\ \A f \in FundNames, g \in FundNames :
                  f # g =>
                    /\ (NewlyAllocated(f) \cap NewlyAllocated(g))' = {}
                    /\ pc' = "done" =>
                          (Range(allocation_results'[f].allocated_systems) \ PreAllocated(f))
                              \cap (Range(allocation_results'[g].allocated_systems) \ PreAllocated(g)) = {}
            /\ \A f \in FundNames : (NewlyAllocated(f) \cap unallocated_systems)' = {}]_vars

\* the placement of a system in a second fund has been skipped because the
\* system was admitted to another fund, which the second fund had room for
C10_Witness ==
    /\ pc = "allocate"
    /\ last.outcome = "taken"
    /\ \E g \in FundNames \ {last.candidate.fund_name} :
          last.candidate.system_index \in NewlyAllocated(g)
    /\ CanAdmit(fund_data[last.candidate.fund_name], df_systems[last.candidate.system_index])

\* the inputs of the concrete scenario: fund F1 with target 1,000,000 and the
\* per-value state constraint, the backlog S1..S4 and nothing allocated before;
\* the second fund has no capacity and takes no part
ScenarioInputs ==
    /\ df_systems = ScenarioBacklog
    /\ \E c \in ScenarioConstraintChoices : c # <<>> /\ funds = [F1 |-> c, F2 |-> <<>>]
    /\ fund_targets = [F1 |-> 1000000, F2 |-> 0]

RECURSIVE RunLoop(_, _, _, _)
RunLoop(rows, data, cands, unallocated) ==
    IF cands = <<>> THEN data
    ELSE LET candidate == Head(cands)
             fund_info == data[candidate.fund_name]
             system == rows[candidate.system_index]
         IN IF \/ candidate.system_index \notin unallocated
               \/ fund_info.remaining_capacity < candidate.system_fmv
               \/ ~Feasible(fund_info, system)
            THEN RunLoop(rows, data, Tail(cands), unallocated)
            ELSE RunLoop(rows,
                         [data EXCEPT ![candidate.fund_name] =
                             Allocate(fund_info, candidate.system_index, system)],
                         Tail(cands), unallocated \ {candidate.system_index})

\* a run of allocate_systems_to_funds on other inputs: the final fund data
Rerun(rows, all_funds, targets) ==
    LET data == [f \in FundNames |-> FundData(rows, f, all_funds[f], targets[f])]
        df == ApplyAllExclusions(rows, DropAllocated(rows, [i \in 1..Len(rows) |-> i]),
                                 all_funds, FundOrder)
    IN RunLoop(rows, data, SortCandidates(BuildCandidates(rows, df, data)), Range(df))

\* the systems without row k
WithoutRow(rows, k) ==
    [i \in 1..(Len(rows) - 1) |-> IF i < k THEN rows[i] ELSE rows[i + 1]]

\* the function computes what the run has computed
RerunAgrees ==
    \A f \in FundNames :
        Rerun(df_systems, funds, fund_targets)[f].allocated_systems
            = allocation_results[f].allocated_systems

\* C12 as stated: after a run, a re-run on the same inputs without one system of
\* the backlog allocates to no fund a larger total FMV than the run did.
C12_GreedyMonotone ==
    (pc = "done" /\ RerunAgrees) =>
        \A k \in Backlog :
            LET rows == WithoutRow(df_systems, k)
                rerun == Rerun(rows, funds, fund_targets)
            IN \A f \in FundNames :
                  SumFMV(rows, Range(rerun[f].allocated_systems))
                      <= TotalFMV(Range(allocation_results[f].allocated_systems))

\* the FMV of the systems the fund held before the run that match the budget
PreExistingUsage(f, a, v) ==
    SumFMV(df_systems, {i \in PreAllocated(f) : df_systems[i][a] = v})

C14_ZeroCapReport ==
    pc = "done" =>
        \A f \in FundNames :
            \A row \in allocation_results[f].constraint_analysis :
                /\ row.usage_percentage[2] # 0
                /\ row.upper_bound = 0 => row.usage_percentage[1] = 0
                /\ row.upper_bound > 0 =>
                      row.usage_percentage[1] * row.upper_bound
                          = row.usage * row.usage_percentage[2]

\* a report with a row for a budget whose cap is 0 and a row for a budget that
\* the run has used in part
C14_Witness ==
    /\ pc = "done"
    /\ \E f \in FundNames :
          /\ \E row \in allocation_results[f].constraint_analysis : row.upper_bound = 0
          /\ \E row \in allocation_results[f].constraint_analysis :
                row.upper_bound > 0 /\ row.usage > 0

\* the fund has an active Upper Bound constraint with a bound
HasActiveBound(constraints) ==
    \E i \in 1..Len(constraints) :
        /\ constraints[i].active
        /\ constraints[i].constraint_type = UPPER_BOUND
        /\ constraints[i].upper_bound # None

\* C15 as stated: whenever the target capacity of a fund is zero or negative,
\* initialization fails, whatever constraints the fund has.
C15_NonPositiveTargetFails ==
    [][(pc = "prepare" /\ \E f \in FundNames : fund_targets[f] <= 0)
            => pc' = "error" /\ fund_data' = <<>>]_vars

\* C15 amended: initialization fails exactly when a fund with a zero or
\* negative target capacity has an active Upper Bound constraint with a bound,
\* and then no fund gets budgets; a fund with such a target and no such
\* constraint is initialized without error, with no budgets and no capacity.
C15_FailsWithActiveBound ==
    [][pc = "prepare" =>
        IF \E f \in FundNames : fund_targets[f] <= 0 /\ HasActiveBound(funds[f])
        THEN pc' = "error" /\ fund_data' = <<>> /\ allocation_results' = <<>>
        ELSE /\ pc' = "build"
             /\ \A f \in FundNames :
                  fund_targets[f] <= 0 =>
                     /\ DOMAIN fund_data'[f].attribute_caps = {}
                     /\ fund_data'[f].remaining_capacity = 0]_vars

\* a run has failed on a fund with target 0 and an active bound
C15_Witness ==
    /\ pc = "error"
    /\ fund_data = <<>>
    /\ \E f \in FundNames : fund_targets[f] <= 0 /\ HasActiveBound(funds[f])

\* C16 as stated: when the run has met the error of a fund with a target
\* capacity that is not positive, every fund with a positive target capacity
\* has its result.
C16_OtherFundsContinue ==
    pc = "error" =>
        \A f \in FundNames :
            fund_targets[f] > 0 => f \in DOMAIN allocation_results

\* what the claim resolves a bound to: bound x capacity up to 1, the bound above 1
Resolved(bound, capacity) ==
    IF bound[1] <= bound[2] THEN (bound[1] * capacity) \div bound[2]
    ELSE bound[1] \div bound[2]

\* the budget with this name in the list an initializer call returned
ModelNamed(models, name) == {models[i] : i \in {k \in 1..Len(models) : models[k].name = name}}

\* C17 as stated: after a call of either initializer with a positive capacity,
\* every cap it returns for an active constraint is the bound times the
\* capacity for a bound up to 1 (the whole capacity for a bound of exactly 1)
\* and the bound itself for a bound above 1, for the constraint's own bound
\* and for the bounds of a value -> bound mapping.
C17_BoundResolution ==
    \A f \in FundNames :
        \A i \in 1..Len(funds[f]) :
            LET c == funds[f][i]
                capacity == fund_targets[f]
            IN (c.active /\ c.constraint_type = UPPER_BOUND /\ c.upper_bound # None
                    /\ capacity > 0) =>
                \A j \in 1..Len(c.conditions) :
                    LET condition == c.conditions[j]
                    IN \A k \in 1..Len(condition.values) :
                        LET bound == IF c.apply_per_value /\ condition.is_dict
                                     THEN condition.bounds[k] ELSE c.upper_bound
                            value == condition.values[k]
                        IN bound # None =>
                            /\ pc = "initialized" =>
                                 \E m \in ModelNamed(fund_model[f],
                                        IF c.apply_per_value THEN c.name \o "_" \o value
                                        ELSE c.name) :
                                     m.upper_bound = Resolved(bound, capacity)
                            /\ pc = "scratch_initialized" =>
                                 constraint_caps[f][IF c.apply_per_value
                                                    THEN c.name \o " - " \o value
                                                    ELSE c.name]
                                     = Resolved(bound, capacity)

\* the positions of the budgets with this name in the list a call returned
ModelsNamed(models, name) == {k \in 1..Len(models) : models[k].name = name}

\* C18 as stated: after a call of the initializer, every listed value of every
\* condition of an active UpperBound constraint with apply_per_value = true
\* has exactly one budget, keyed constraint_name + "_" + value, matching only
\* that value, with the cap of the value's own bound for a mapping and of the
\* constraint's overall bound for a plain list.
C18_OneBudgetPerValue ==
    pc = "initialized" =>
        \A f \in FundNames :
            \A i \in 1..Len(funds[f]) :
                LET c == funds[f][i]
                IN (c.active /\ c.constraint_type = UPPER_BOUND /\ c.apply_per_value) =>
                    \A j \in 1..Len(c.conditions) :
                        LET condition == c.conditions[j]
                        IN \A k \in 1..Len(condition.values) :
                            LET value == condition.values[k]
                                bound == IF condition.is_dict THEN condition.bounds[k]
                                         ELSE c.upper_bound
                                named == ModelsNamed(fund_model[f], c.name \o "_" \o value)
                            IN /\ Cardinality(named) = 1
                               /\ \A m \in named :
                                    /\ fund_model[f][m].values = <<value>>
                                    /\ fund_model[f][m].attribute = condition.type
                                    /\ bound # None =>
                                         fund_model[f][m].upper_bound
                                             = Resolved(bound, fund_targets[f])

\* the systems newly allocated to the fund whose attribute is one of the values
GroupAllocated(f, attribute, values) ==
    {id \in NewlyAllocated(f) : df_systems[id][attribute] \in Range(values)}

\* C19 as stated: an active UpperBound constraint with apply_per_value = false
\* has one budget shared by all its listed values, so at the end of a run the
\* FMV newly allocated to the fund over all the listed values together is
\* within the constraint's cap.
C19_GroupCapShared ==
    pc = "done" =>
        \A f \in FundNames :
            \A i \in 1..Len(funds[f]) :
                LET c == funds[f][i]
                IN (~Skipped(c) /\ ~c.apply_per_value) =>
                    \A j \in 1..Len(c.conditions) :
                        TotalFMV(GroupAllocated(f, c.conditions[j].type, c.conditions[j].values))
                            <= Resolved(c.upper_bound, fund_targets[f])

\* the constraint with another upper bound and other listed values
Changed(constraint, upper_bound, values) ==
    Constraint(constraint.name, constraint.constraint_type, upper_bound,
               constraint.apply_per_value,
               [j \in 1..Len(constraint.conditions) |->
                   Condition(constraint.conditions[j].type, FALSE, values, <<>>)],
               constraint.active)
ChangedBounds == {None, <<1, 4>>, <<3, 1>>}
ChangedValues == {<<"CA">>, <<"TX", "NY">>}

\* the fund's constraints with the i-th one changed
WithChanged(constraints, i, upper_bound, values) ==
    [constraints EXCEPT ![i] = Changed(constraints[i], upper_bound, values)]

\* the names a budget of the constraint can have in either initializer
BudgetNames(constraint) ==
    {constraint.name} \cup
    UNION {{constraint.name \o "_" \o v, constraint.name \o " - " \o v} :
              v \in States \cup {OTHERS}}

\* C20 as stated: after a call of either initializer no budget belongs to a
\* constraint that is inactive or of kind Exclusion, and the budgets returned
\* are the ones the call returns when such a constraint has another upper
\* bound or other values.
C20_NoBudgetForSkipped ==
    \A f \in FundNames :
        \A i \in 1..Len(funds[f]) :
            LET c == funds[f][i]
            IN (~c.active \/ c.constraint_type = EXCLUSION) =>
                /\ pc = "initialized" =>
                     /\ \A k \in 1..Len(fund_model[f]) :
                            fund_model[f][k].name \notin BudgetNames(c)
                     /\ \A ub \in ChangedBounds, vs \in ChangedValues :
                            fund_model[f] = initialize_constraint_caps(
                                WithChanged(funds[f], i, ub, vs), fund_targets[f])
                /\ pc = "scratch_initialized" =>
                     /\ DOMAIN constraint_caps[f] \cap BudgetNames(c) = {}
                     /\ \A ub \in ChangedBounds, vs \in ChangedValues :
                            constraint_caps[f] = scratch_initialize_constraint_caps(
                                WithChanged(funds[f], i, ub, vs), fund_targets[f])

\* the systems among ids that match the budget of the attribute's value under
\* the fund's constraints: a value's own budget is matched by the systems of
\* that value, the OTHERS budget by the systems whose value has no budget and
\* is not named explicitly
MatchingBudget(f, a, v, ids) ==
    {id \in ids : v \in MatchedBudgets(fund_data[f], a, df_systems[id])}

Max(x, y) == IF x >= y THEN x ELSE y

\* C21 as stated: when the fund data are prepared and nothing is admitted
\* yet, every budget's remaining is max(cap - P, 0), P the FMV of the systems
\* already allocated to the fund that match the budget, and the fund's
\* remaining capacity is max(target - FMV already allocated to the fund, 0).
C21_InitialRemaining ==
    pc = "build" =>
        \A f \in FundNames :
            /\ fund_data[f].remaining_capacity
                   = Max(fund_targets[f] - TotalFMV(PreAllocated(f)), 0)
            /\ \A a \in DOMAIN fund_data[f].attribute_caps :
                  \A v \in DOMAIN fund_data[f].attribute_caps[a] :
                      fund_data[f].attribute_caps[a][v]
                          = Max(OriginalCaps(f)[a][v]
                                  - TotalFMV(MatchingBudget(f, a, v, PreAllocated(f))), 0)

\* C22 as stated: whenever the allocation loop passes over a placement for
\* lack of capacity, the fund's infeasible_constraints holds a reason for it
\* afterwards: the reason of the budget that fails when a matched budget has
\* too little left, and some reason when the fund's remaining capacity is too
\* small.
C22_RejectionsRecorded ==
    [][(pc = "allocate" /\ pos' = pos + 1 /\ last'.outcome \in {"no_capacity", "infeasible"}) =>
        LET candidate == candidate_allocations[pos]
            fund_info == fund_data[candidate.fund_name]
            reasons == fund_data'[candidate.fund_name].infeasible_constraints
        IN IF last'.outcome = "infeasible"
           THEN InfeasibleReason(fund_info, df_systems[candidate.system_index]) \in reasons
           ELSE reasons # {}]_vars

\* the budgets the initializer returns for the fund
Budgets(f) == initialize_constraint_caps(funds[f], fund_targets[f])

\* the budget covers the system's value
Covers(model, system) == system[model.attribute] \in Range(model.values)

\* two budgets of the fund cover the value of one attribute
Overlapping(f, m, n) ==
    /\ m # n
    /\ Budgets(f)[m].attribute = Budgets(f)[n].attribute
    /\ Range(Budgets(f)[m].values) \cap Range(Budgets(f)[n].values) # {}

\* what is left of a budget of the fund: its cap less the FMV of the fund's
\* systems it covers
LeftOf(f, m) ==
    Budgets(f)[m].upper_bound
        - TotalFMV({id \in Range(fund_data[f].allocated_systems) :
                        Covers(Budgets(f)[m], df_systems[id])})

\* C23 as stated: when two budgets of a fund cover the same value, a system
\* with that value is admitted only if each of the two has the system's FMV
\* left, counting every system of the fund the budget covers.
C23_OverlappingCapsEnforced ==
    [][(Processes /\ Admits) =>
        LET candidate == candidate_allocations[pos]
            f == candidate.fund_name
            system == df_systems[candidate.system_index]
        IN \A m, n \in 1..Len(Budgets(f)) :
              (Overlapping(f, m, n) /\ Covers(Budgets(f)[m], system)
                    /\ Covers(Budgets(f)[n], system)) =>
                  /\ LeftOf(f, m) >= system.FMV
                  /\ LeftOf(f, n) >= system.FMV]_vars

\* no (system, fund) pair is placed twice in the list
PlacementsDistinct ==
    \A i, j \in 1..Len(candidate_allocations) :
        (/\ candidate_allocations[i].system_index = candidate_allocations[j].system_index
         /\ candidate_allocations[i].fund_name = candidate_allocations[j].fund_name) => i = j

\* C24: the allocation loop is one pass over a list that does not change and
\* holds no pair twice: each step examines the placement at the position and
\* moves the position on by one, whatever the outcome, so no placement is
\* examined again; past the last placement the results are compiled, and
\* a run that enters the loop ends in the results.
C24_OnePass ==
    /\ [][pc = "allocate" =>
            /\ candidate_allocations' = candidate_allocations
            /\ IF pos <= Len(candidate_allocations)
               THEN /\ pc' = "allocate"
                    /\ pos' = pos + 1
                    /\ last'.candidate = candidate_allocations[pos]
               ELSE /\ pc' = "done"
                    /\ pos' = pos]_vars
    /\ [](Built => PlacementsDistinct /\ pos <= Len(candidate_allocations) + 1)
    /\ (pc = "allocate" ~> pc = "done")

\* a placement has just been rejected and the loop stands at the next placement
C24_Witness ==
    /\ pc = "allocate"
    /\ pos > 1 /\ pos <= Len(candidate_allocations)
    /\ last.candidate = candidate_allocations[pos - 1]
    /\ last.outcome \in {"no_capacity", "infeasible"}

\* no budget of the attribute applies to the system in the fund: its value
\* has no budget of its own, and the attribute has no OTHERS budget or the
\* value is named explicitly
Unconstrained(fund_info, a, system) ==
    /\ system[a] \notin DOMAIN fund_info.attribute_caps[a]
    /\ \/ OTHERS \notin DOMAIN fund_info.attribute_caps[a]
       \/ system[a] \in fund_info.constrained_values[a]

\* every budget of the other attributes the system matches has room for it
RoomElsewhere(fund_info, a, system) ==
    \A b \in DOMAIN fund_info.attribute_caps \ {a} :
        \A v \in MatchedBudgets(fund_info, b, system) :
            fund_info.attribute_caps[b][v] >= system.FMV

\* C25: an attribute with budgets of which none applies to the system does
\* not constrain it. In the allocation loop the system is admitted whenever
\* it is unallocated, the fund has the capacity and the other attributes have
\* room, and no budget of the attribute changes; in the candidate list the
\* placement is there under the same conditions.
C25_UnconstrainedAttribute ==
    /\ [][Processes =>
            \A a \in DOMAIN CandidateFund.attribute_caps :
                Unconstrained(CandidateFund, a, CandidateSystem) =>
                    /\ fund_data'[Candidate.fund_name].attribute_caps[a]
                           = CandidateFund.attribute_caps[a]
                    /\ (/\ Candidate.system_index \in unallocated_systems
                        /\ CandidateFund.remaining_capacity >= CandidateSystem.FMV
                        /\ RoomElsewhere(CandidateFund, a, CandidateSystem)) => Admits]_vars
    /\ [](Built =>
            \A f \in FundNames : \A idx \in Range(df_backlog) :
                \A a \in DOMAIN OriginalCaps(f) :
                    LET before == FundData(df_systems, f, funds[f], fund_targets[f])
                    IN (/\ Unconstrained(before, a, df_systems[idx])
                        /\ before.remaining_capacity >= df_systems[idx].FMV
                        /\ RoomElsewhere(before, a, df_systems[idx])) =>
                            \E k \in 1..Len(candidate_allocations) :
                                /\ candidate_allocations[k].system_index = idx
                                /\ candidate_allocations[k].fund_name = f)

\* a system was admitted to a fund in which an attribute with budgets did not
\* constrain it, and that attribute's budgets are what they were before the run
C25_Witness ==
    /\ pc = "allocate"
    /\ last.outcome = "allocated"
    /\ LET f == last.candidate.fund_name
           system == df_systems[last.candidate.system_index]
           before == FundData(df_systems, f, funds[f], fund_targets[f])
       IN \E a \in DOMAIN before.attribute_caps :
            /\ Unconstrained(before, a, system)
            /\ OTHERS \in DOMAIN before.attribute_caps[a]
            /\ fund_data[f].attribute_caps[a] = before.attribute_caps[a]
            /\ \E v \in DOMAIN before.attribute_caps[a] :
                  before.attribute_caps[a][v] < system.FMV

\* the funds run_optimization has been through
Optimized == {selected_funds[i] : i \in 1..(selected_pos - 1)} \cap DOMAIN runner_results

\* C26 as stated: when run_optimization has allocated systems to a fund, they
\* are marked allocated in the backlog, as update_allocations does, so the
\* query for the next fund no longer returns them, and no system is allocated
\* to two funds of the invocation.
C26_AllocatedNotOfferedAgain ==
    pc \in {"run", "run_done"} =>
        /\ \A f \in Optimized :
              \A idx \in Range(runner_results[f].allocated_systems) :
                  /\ update_allocations(allocated_fund,
                                        runner_results[f].allocated_systems, f) = allocated_fund
                  /\ idx \notin Range(EligibleSystems(df_systems, allocated_fund))
        /\ \A f, g \in Optimized :
              f # g => Range(runner_results[f].allocated_systems)
                          \cap Range(runner_results[g].allocated_systems) = {}

\* every (system, fund) pair of the backlog, in the order the pairs are built
AllPlacements(rows, df) ==
    Flatten([i \in 1..Len(df) |->
        [k \in 1..Len(FundOrder) |-> Placement(df[i], FundOrder[k], rows[df[i]].FMV)]])

\* the fund data at the end of the loop when it examines every pair
UnfilteredRun ==
    RunLoop(df_systems,
            [f \in FundNames |-> FundData(df_systems, f, funds[f], fund_targets[f])],
            SortCandidates(AllPlacements(df_systems, df_backlog)),
            Range(df_backlog))

\* C27: the candidate list built from the pairs that are feasible against the
\* initial budgets loses nothing. The fund's remaining capacity and every
\* budget never grow during a run; a pair that is not in the list can be
\* admitted at no later point; and the allocated systems, remaining capacity
\* and budgets at the end are those of the loop run over all pairs in the same
\* order.
C27_PrefilterLosesNothing ==
    /\ [][(Prepared /\ Prepared') =>
            \A f \in FundNames :
                /\ fund_data'[f].remaining_capacity <= fund_data[f].remaining_capacity
                /\ \A a \in DOMAIN fund_data[f].attribute_caps :
                      \A v \in DOMAIN fund_data[f].attribute_caps[a] :
                          fund_data'[f].attribute_caps[a][v] <= fund_data[f].attribute_caps[a][v]]_vars
    /\ [](Built =>
            \A f \in FundNames : \A idx \in unallocated_systems :
                Placement(idx, f, df_systems[idx].FMV) \notin Range(candidate_allocations)
                    => ~CanAdmit(fund_data[f], df_systems[idx]))
    /\ [](pc = "done" =>
            \A f \in FundNames :
                /\ fund_data[f].allocated_systems = UnfilteredRun[f].allocated_systems
                /\ fund_data[f].remaining_capacity = UnfilteredRun[f].remaining_capacity
                /\ fund_data[f].attribute_caps = UnfilteredRun[f].attribute_caps)

\* a run has ended that admitted a system to a fund and whose candidate list
\* left out a pair of the backlog, for lack of capacity or of budget
C27_Witness ==
    /\ pc = "done"
    /\ \E f \in FundNames : NewlyAllocated(f) # {}
    /\ \E f \in FundNames : \E idx \in Range(df_backlog) :
          /\ Placement(idx, f, df_systems[idx].FMV) \notin Range(candidate_allocations)
          /\ fund_targets[f] > 0
    /\ \E f \in FundNames : fund_data[f].infeasible_constraints # {}

\* the fund data Step 1 computes, before anything is admitted
InitialData(f) == FundData(df_systems, f, funds[f], fund_targets[f])

\* C28: the accounts of a run are conserved. In every state from Step 1 on,
\* what a fund's remaining capacity has lost since Step 1 is the FMV of the
\* systems newly admitted to the fund, and what a budget has lost is the FMV
\* of the newly admitted systems of the fund that match the budget.
C28_AccountingConserved ==
    Prepared =>
        \A f \in FundNames :
            /\ InitialData(f).remaining_capacity - fund_data[f].remaining_capacity
                   = TotalFMV(NewlyAllocated(f))
            /\ \A a \in DOMAIN fund_data[f].attribute_caps :
                  \A v \in DOMAIN fund_data[f].attribute_caps[a] :
                      InitialData(f).attribute_caps[a][v] - fund_data[f].attribute_caps[a][v]
                          = TotalFMV(MatchingBudget(f, a, v, NewlyAllocated(f)))

\* a run has ended in which a fund that held a system already admitted two
\* more, one paid by a budget of a named value and one by an OTHERS budget
C28_Witness ==
    /\ pc = "done"
    /\ \E f \in FundNames :
          /\ PreAllocated(f) # {}
          /\ \E a \in DOMAIN fund_data[f].attribute_caps :
                /\ OTHERS \in DOMAIN fund_data[f].attribute_caps[a]
                /\ MatchingBudget(f, a, OTHERS, NewlyAllocated(f)) # {}
                /\ \E v \in DOMAIN fund_data[f].attribute_caps[a] \ {OTHERS} :
                      MatchingBudget(f, a, v, NewlyAllocated(f)) # {}

\* the fund's already-allocated systems whose value for the attribute is not
\* explicitly constrained: it has no budget of its own and is not named
NotExplicitlyConstrained(f, a) ==
    {id \in PreAllocated(f) :
        /\ df_systems[id][a] \notin DOMAIN fund_data[f].attribute_caps[a]
        /\ df_systems[id][a] \notin fund_data[f].constrained_values[a]}

\* C29 as stated: when the fund data are prepared, the remaining of an
\* attribute's OTHERS budget is its cap less the FMV of the fund's
\* already-allocated systems whose value for the attribute is not explicitly
\* constrained, floored at 0.
C29_OthersNetOfExisting ==
    pc = "build" =>
        \A f \in FundNames :
            \A a \in DOMAIN fund_data[f].attribute_caps :
                OTHERS \in DOMAIN fund_data[f].attribute_caps[a] =>
                    fund_data[f].attribute_caps[a][OTHERS]
                        = Max(OriginalCaps(f)[a][OTHERS]
                                - TotalFMV(NotExplicitlyConstrained(f, a)), 0)

\* a system already in the portfolio of a fund of the run
AlreadyAllocated == {idx \in 1..Len(df_systems) : df_systems[idx].portfolio \in FundNames}

NoDuplicates(seq) == Cardinality(Range(seq)) = Len(seq)

====
